---- MODULE Spec2Model ----
(***************************************************************************)
(* A state-machine model of the validation core of vee-validate:           *)
(*   src/src/core/validator.js  (Validator: attach, detach, validate,      *)
(*                               validateAll, validateScopes, _validate,   *)
(*                               _test, _handleValidationResults, ...)     *)
(*   src/src/core/errorBag.js   (ErrorBag: add, remove, removeById,        *)
(*                               _makeCandidateFilters, ...)               *)
(* Field and FieldBag (field.js, fieldBag.js) are modelled from the        *)
(* natural-language specification.                                         *)
(*                                                                         *)
(* Strings that the code parses (field names, scopes, selectors) are       *)
(* sequences of dot-free segments: the name "a.b" is <<"a","b">>, and      *)
(* `${scope}.${field}` is <<scope>> \o field.                              *)
(*                                                                         *)
(* A promise is a record with a state; an asynchronous rule outcome stays  *)
(* "pending" until the SettleRule step, and the .then callback of a        *)
(* validate / validateAll / validateScopes / attach call runs in the       *)
(* Settle step, once the promise it is chained on has settled.             *)
(***************************************************************************)
EXTENDS Integers, Sequences, FiniteSets, TLC

VARIABLES
  fields,    \* Validator.fields.items: the FieldBag, in insertion order
  errors,    \* Validator.errors.items: the ErrorBag, in insertion order
  RULES,     \* the process-wide rule registry (validator.js:9)
  paused,    \* Validator.paused
  strict,    \* Validator.strict
  fastExit,  \* Validator.fastExit
  inflight,  \* validations whose .then callback has not run yet, in call order
  nextId,    \* the id the next constructed Field gets
  host,      \* what the host does: the fields of its form, the options it passes
  last       \* the step just taken: the operation, what it returned, the task

vars == <<fields, errors, RULES, paused, strict, fastExit, inflight, nextId, host, last>>

Null == "null"
Undefined == "undefined"

\* ------------------------------------------------------------------ bounds
\* Fields constructed in one behaviour.
MaxAttach == 2
\* Fields constructed in one behaviour by a host whose form has one field.
MaxSolo == 1
\* Validations in flight at once.
MaxInflight == 1
\* Validations in flight at once for a host that races them on one field.
MaxRacing == 2
\* Entries the host adds to the ErrorBag by hand.
MaxBag == 3

\* ------------------------------------------------------------------ inputs
\* The validate functions rules are registered with: a function is either
\* synchronous or returns a promise, and accepts a set of values.
RuleLib ==
  [ okOrMid |-> [async |-> FALSE, accepts |-> {"ok", "mid"}],
    okOnly  |-> [async |-> FALSE, accepts |-> {"ok"}],
    okLater |-> [async |-> TRUE,  accepts |-> {"ok"}] ]

\* Validator.extend's default options (validator.js:112).
DefaultOptions == [hasTarget |-> FALSE, immediate |-> TRUE]

\* The rules installed before any validator is used. "rd" was extended with
\* {immediate: false}; "rz" is never registered.
InstalledRules ==
  [ ra |-> [validate |-> "okOrMid", options |-> DefaultOptions],
    rb |-> [validate |-> "okOnly",  options |-> DefaultOptions],
    rc |-> [validate |-> "okLater", options |-> DefaultOptions],
    rd |-> [validate |-> "okOnly",  options |-> [DefaultOptions EXCEPT !.immediate = FALSE]] ]

\* What extend() is given as its validator: a function, an object with a
\* validate method, an object without one, a primitive, null or undefined.
ValidatorShapes == {"function", "withValidate", "noValidate", "primitive", "null", "undefined"}

\* The rules extend() and remove() are called with. `validate` names the
\* function of RuleLib that the validator is, or holds as its validate method.
ExtendCalls == { [name |-> "rc", shape |-> "function", validate |-> "okLater"] }
RemoveCalls == { "rc" }

\* The extend() calls of a host that also passes validators of every other
\* shape, for a registered rule and for a new one.
GuardedCalls ==
  [name : {"rc", "rx"}, shape : ValidatorShapes, validate : DOMAIN RuleLib]

FieldOpts(name, scope, rules, bails, req, dis, imm, value) ==
  [ name |-> name, scope |-> scope, vmId |-> "vm1", rules |-> rules, bails |-> bails,
    isRequired |-> req, isDisabled |-> dis, immediate |-> imm, value |-> value ]

\* The field descriptors attach() is called with.
\*                      name          scope rules           bails      required disabled immediate value
SyncField  == FieldOpts(<<"a">>,      Null, <<"ra", "rb">>, Undefined, TRUE,  FALSE, FALSE, "mid")
DotField   == FieldOpts(<<"a", "b">>, Null, <<"rc">>,       Undefined, FALSE, FALSE, TRUE,  "mid")
ScopeField == FieldOpts(<<"b">>,      "a",  <<"rc", "rb">>, Undefined, FALSE, FALSE, FALSE, "mid")
LostField  == FieldOpts(<<"b">>,      Null, <<"rz", "rb">>, Undefined, FALSE, FALSE, FALSE, "mid")
OffField   == FieldOpts(<<"a">>,      "a",  <<"rb", "ra">>, "false",   FALSE, FALSE, FALSE, "")
FirmField  == FieldOpts(<<"b">>,      Null, <<"ra", "rb">>, "true",    TRUE,  FALSE, FALSE, "mid")
SlowField  == FieldOpts(<<"a">>,      Null, <<"rc">>,       Undefined, FALSE, FALSE, FALSE, "mid")
BareField  == FieldOpts(<<"b">>,      Null, <<>>,           Undefined, FALSE, FALSE, FALSE, "mid")
OptionalField == FieldOpts(<<"a">>,   Null, <<"ra", "rb">>, Undefined, FALSE, FALSE, FALSE, "")
DisabledField == FieldOpts(<<"b">>,   Null, <<"ra", "rb">>, Undefined, TRUE,  TRUE,  FALSE, "mid")
LazyField  == FieldOpts(<<"b">>,      Null, <<"rd", "ra">>, Undefined, FALSE, FALSE, FALSE, "mid")
\* SyncField as a second host instance registers it: same name and scope.
TwinField  == [SyncField EXCEPT !.vmId = "vm2"]

\* A host: the descriptors of its form (each attached at most once at a
\* time), the silent options and the values it passes to validate, how many
\* validations it leaves in flight at once and how many fields it constructs.
Host(form, silents, values, cap, attach) ==
  [form |-> form, silents |-> silents, values |-> values, cap |-> cap, attach |-> attach,
   extends |-> ExtendCalls]

\* ----------------------------------------------------------------- helpers
RemoveAt(s, i) == SubSeq(s, 1, i - 1) \o SubSeq(s, i + 1, Len(s))

RECURSIVE Flatten(_)
Flatten(ss) == IF ss = <<>> THEN <<>> ELSE Head(ss) \o Flatten(Tail(ss))

BoolStr(b) == IF b THEN "true" ELSE "false"

InitialFlags == [pending |-> FALSE, valid |-> Null, validated |-> FALSE]

\* ---------------------------------------------------------------- ErrorBag
\* The selector regex /((?:[\w-])+\.)?((?:[\w-.])+)(:\w+)?/ on a dotted string:
\* the optional first group takes the first segment whenever a second one
\* follows, the name takes the rest. No selector built here carries ":rule".
_makeCandidateFilters(selector) ==
  IF Len(selector) >= 2
    THEN [scope |-> selector[1], name |-> Tail(selector)]
    ELSE [scope |-> Undefined, name |-> selector]

\* isPrimary of _makeCandidateFilters: name, rule (none given) and scope match;
\* a selector without a scope matches only items whose scope is null.
isPrimary(item, selector) ==
  LET f == _makeCandidateFilters(selector) IN
    /\ item.field = f.name
    /\ IF f.scope = Undefined THEN item.scope = Null ELSE item.scope = f.scope

\* `${scope}.${field}`, or String(field) when the scope is null or undefined.
Selector(field, scope) ==
  IF scope \in {Null, Undefined} THEN field ELSE <<scope>> \o field

\* ErrorBag.remove(field, scope): a third argument is not read.
ErrorBagRemove(items, field, scope) ==
  SelectSeq(items, LAMBDA e : ~isPrimary(e, Selector(field, scope)))

\* ErrorBag.removeById(ids), the array form.
ErrorBagRemoveById(items, ids) ==
  SelectSeq(items, LAMBDA e : e.id \notin ids)

\* ErrorBag.add(errors): _normalizeError turns an undefined scope into null.
ErrorBagAdd(items, errs) ==
  items \o [i \in 1..Len(errs) |->
              [errs[i] EXCEPT !.scope = IF @ = Undefined THEN Null ELSE @]]

\* ErrorBag.update taking the latest error of the id.
ErrorBagUpdateLatest(items, id, scope) ==
  LET hits == {i \in 1..Len(items) : items[i].id = id}
  IN IF hits = {} THEN items
     ELSE LET idx == CHOOSE i \in hits : \A k \in hits : i >= k
          IN Append(RemoveAt(items, idx), [items[idx] EXCEPT !.scope = scope])

\* ErrorBag.update(id, {scope}): find() gives the first item of that id; it
\* is spliced out, given the scope and pushed.
ErrorBagUpdate(items, id, scope) ==
  LET hits == {i \in 1..Len(items) : items[i].id = id}
  IN IF hits = {} THEN items
     ELSE LET idx == CHOOSE i \in hits : \A k \in hits : i <= k
          IN Append(RemoveAt(items, idx), [items[idx] EXCEPT !.scope = scope])

\* matchesRule of _makeCandidateFilters: the selector's ":rule" suffix, when
\* it has one, is the item's rule.
matchesRule(item, rule) == rule = Undefined \/ item.rule = rule

\* isAlt of _makeCandidateFilters: the rule matches and the item's field name
\* is `${scope}.${name}`, whatever the item's scope; a selector without a
\* scope gives the name "undefined.<name>".
isAlt(item, selector, rule) ==
  LET f == _makeCandidateFilters(selector) IN
    /\ matchesRule(item, rule)
    /\ item.field = <<f.scope>> \o f.name

\* An iteration of _match that overwrites the alt candidate only when it has
\* none.
_matchStepFirstAlt(items, selector, rule, idx, prev) ==
  IF prev.primary # 0 THEN prev
  ELSE [primary |-> IF isPrimary(items[idx], selector) /\ matchesRule(items[idx], rule)
                      THEN idx ELSE 0,
        alt |-> IF prev.alt = 0 /\ isAlt(items[idx], selector, rule) THEN idx ELSE prev.alt]

\* One iteration of the reduce of _match on item idx. `prev` holds the places
\* of the primary and of the alt candidate found so far, 0 for none.
_matchStep(items, selector, rule, idx, prev) ==
  IF prev.primary # 0 THEN prev
  ELSE [primary |-> IF isPrimary(items[idx], selector) /\ matchesRule(items[idx], rule)
                      THEN idx ELSE 0,
        alt |-> IF isAlt(items[idx], selector, rule) THEN idx ELSE prev.alt]

RECURSIVE _matchFrom(_, _, _, _, _)
\* The reduce of _match from item idx on.
_matchFrom(items, selector, rule, idx, prev) ==
  IF idx > Len(items) THEN prev
  ELSE _matchFrom(items, selector, rule, idx + 1, _matchStep(items, selector, rule, idx, prev))

\* ErrorBag._match(selector): the place of the item it returns, 0 when it
\* returns no item (`prev.primary || prev.alt` undefined, or the empty
\* accumulator of an empty bag).
_match(items, selector, rule) ==
  LET found == _matchFrom(items, selector, rule, 1, [primary |-> 0, alt |-> 0])
  IN IF found.primary # 0 THEN found.primary ELSE found.alt

\* ErrorBag.first(field, scope): `match && match.msg`. The field argument is
\* the dotted name `field` followed by ":rule" when `rule` is defined.
first(items, field, rule, scope) ==
  LET match == _match(items, Selector(field, scope), rule)
  IN IF match = 0 THEN Undefined ELSE items[match].msg

\* ErrorBag.count()
count(items) == Len(items)

\* ErrorBag.collect() without a field: the messages grouped by field name,
\* whatever the scope, each group in insertion order.
collect(items) ==
  [f \in {items[i].field : i \in 1..Len(items)} |->
     LET group == SelectSeq(items, LAMBDA e : e.field = f)
     IN [k \in 1..Len(group) |-> group[k].msg]]

\* ---------------------------------------------------------------- FieldBag
\* A matcher is a record holding the criteria that are given; a criterion
\* that is undefined is left out of the record and matches every field.
FieldMatches(f, m) == \A k \in DOMAIN m : f[k] = m[k]

\* A field matches a set of matchers when it matches one of them.
FieldMatchesAny(f, ms) == \E m \in ms : FieldMatches(f, m)

\* FieldBag.find: the index of the first match, 0 for null.
FieldBagFind(flds, ms) ==
  IF \E i \in 1..Len(flds) : FieldMatchesAny(flds[i], ms)
    THEN CHOOSE i \in 1..Len(flds) :
           /\ FieldMatchesAny(flds[i], ms)
           /\ \A j \in 1..(i - 1) : ~FieldMatchesAny(flds[j], ms)
    ELSE 0

\* FieldBag.filter: the matching fields, in insertion order.
FieldBagFilter(flds, ms) == SelectSeq(flds, LAMBDA f : FieldMatchesAny(f, ms))

\* Field.setFlags for the flags result handling writes.
SetFlags(f, fl) == [f EXCEPT !.flags = [k \in DOMAIN @ |-> IF k \in DOMAIN fl THEN fl[k] ELSE @[k]]]

\* new Field(options): a fresh id, scope defaulting to null, pristine flags.
NewField(o, id) ==
  [ id |-> id, name |-> o.name, scope |-> o.scope, vmId |-> o.vmId, rules |-> o.rules,
    bails |-> o.bails, isRequired |-> o.isRequired, isDisabled |-> o.isDisabled,
    immediate |-> o.immediate, value |-> o.value, flags |-> InitialFlags ]

\* ------------------------------------------------------ the flags getter
\* The key `$${field.scope}` of the flags view, written as the pair of "$"
\* and the scope; no field name of the forms starts with "$".
ScopeKey(scope) == <<"$", scope>>

RECURSIVE flagsFrom(_, _)
\* The reduce of the flags getter: a field with a scope assigns a new object
\* holding its flags alone to acc[`$${scope}`]; a field without one assigns
\* its flags to acc[name].
flagsFrom(flds, acc) ==
  IF flds = <<>> THEN acc
  ELSE LET field == Head(flds)
       IN flagsFrom(Tail(flds),
                    IF field.scope \notin {Null, Undefined}
                      THEN (ScopeKey(field.scope) :> (field.name :> field.flags)) @@ acc
                      ELSE (field.name :> field.flags) @@ acc)

\* Validator.flags (getter): the fields reduced from an empty object.
flags(flds) == flagsFrom(flds, <<>>)

\* ------------------------------------------------- rule invocation (_test)
\* Validator._createFieldError: the error carries the field's id, owner,
\* name and scope and the rule's name.
_createFieldError(field, rule) ==
  [id |-> field.id, vmId |-> field.vmId, field |-> field.name, rule |-> rule, scope |-> field.scope]

\* Validator._test. The outcome of one rule on one value:
\*   promise  whether _test returned a promise (isCallable(result.then))
\*   called   whether the registered validate function was invoked
\*   state    "pending" | "fulfilled" | "rejected"; a synchronous result is "fulfilled"
\*   valid    the validity the outcome has, or will have once it settles
\*   errors   the FieldError built for an invalid outcome
\* A rule absent from the registry gives a rejected promise without invoking
\* anything. Rule parameters (target value, required's [true], date format)
\* are not modelled: no rule of RuleLib reads them.
_test(field, value, rule) ==
  IF rule \notin DOMAIN RULES
    THEN [rule |-> rule, promise |-> TRUE, called |-> FALSE, state |-> "rejected",
          valid |-> FALSE, errors |-> <<>>]
    ELSE LET impl == RuleLib[RULES[rule].validate]
             ok == value \in impl.accepts
         IN [rule |-> rule, promise |-> impl.async, called |-> TRUE,
             state |-> IF impl.async THEN "pending" ELSE "fulfilled",
             valid |-> ok,
             errors |-> IF ok THEN <<>> ELSE <<_createFieldError(field, rule)>>]

\* ------------------------------------------------------ _validate
\* _shouldSkip without its last line: only disabled fields are skipped.
_shouldSkipDisabledOnly(field, value) ==
  IF field.bails = "false" THEN FALSE ELSE field.isDisabled

\* _shouldSkip without its isDisabled test.
_shouldSkipEmptyOnly(field, value) ==
  IF field.bails = "false" THEN FALSE
  ELSE ~field.isRequired /\ value \in {Null, Undefined, ""}

\* Validator._shouldSkip
_shouldSkip(field, value) ==
  IF field.bails = "false" THEN FALSE
  ELSE IF field.isDisabled THEN TRUE
  ELSE ~field.isRequired /\ value \in {Null, Undefined, ""}

\* _shouldBail reading the validator's fastExit only.
_shouldBailIgnoresField(field) == fastExit

\* Validator._shouldBail
_shouldBail(field) ==
  IF field.bails # Undefined THEN field.bails = "true" ELSE fastExit

\* The filter of _validate keeping every rule on an initial pass too.
RulesToRunAlways(field, initial) == field.rules

\* The filter of _validate: on an initial pass only the rules registered as
\* immediate are kept; a rule that is not registered is kept.
RulesToRun(field, initial) ==
  SelectSeq(field.rules,
            LAMBDA r : ~initial \/ r \notin DOMAIN RULES \/ RULES[r].options.immediate)

\* One iteration of the .some() scan of _validate over the rule list.
ScanStep(field, value, rule, acc) ==
  LET result == _test(field, value, rule)
      inv == IF result.called THEN Append(acc.invoked, rule) ELSE acc.invoked
  IN IF result.promise
       THEN [acc EXCEPT !.promises = Append(@, result), !.invoked = inv]
     ELSE IF ~result.valid /\ _shouldBail(field)
       THEN [acc EXCEPT !.errors = @ \o result.errors, !.isExitEarly = TRUE, !.invoked = inv]
     ELSE [acc EXCEPT !.promises = Append(@, result), !.invoked = inv]

RECURSIVE Scan(_, _, _, _)
\* The scan stops at the first iteration that sets isExitEarly.
Scan(field, value, rules, acc) ==
  IF rules = <<>> \/ acc.isExitEarly THEN acc
  ELSE Scan(field, value, Tail(rules), ScanStep(field, value, Head(rules), acc))

\* Validator._validate up to its return: the state its returned promise is
\* chained on. `skipped` and `isExitEarly` results are resolved at once;
\* otherwise the result is Promise.all(promises). `rules` is the rule list
\* the scan is given, `value` the value; `absent` remembers which rules of
\* the field the registry did not hold when _validate was called.
_validate(field, value, initial) ==
  LET base == [id |-> field.id, field |-> field.name, scope |-> field.scope, value |-> value,
               rules |-> RulesToRun(field, initial),
               absent |-> {field.rules[k] : k \in {n \in 1..Len(field.rules) : field.rules[n] \notin DOMAIN RULES}},
               skipped |-> FALSE, isExitEarly |-> FALSE, errors |-> <<>>,
               promises |-> <<>>, invoked |-> <<>>]
  IN IF _shouldSkip(field, value)
       THEN [base EXCEPT !.skipped = TRUE]
       ELSE Scan(field, value, RulesToRun(field, initial), base)

\* The promise _validate returned has rejected: Promise.all rejects as soon
\* as one of its promises does.
RunRejected(run) ==
  /\ ~run.skipped /\ ~run.isExitEarly
  /\ \E k \in 1..Len(run.promises) : run.promises[k].state = "rejected"

\* The promise _validate returned has resolved with a field result.
RunResolved(run) ==
  \/ run.skipped
  \/ run.isExitEarly
  \/ \A k \in 1..Len(run.promises) : run.promises[k].state = "fulfilled"

RECURSIVE FailedErrors(_)
\* The reduce of _validate: the errors of the invalid outcomes, in order.
FailedErrors(promises) ==
  IF promises = <<>> THEN <<>>
  ELSE (IF Head(promises).valid THEN <<>> ELSE Head(promises).errors)
         \o FailedErrors(Tail(promises))

\* The field result the promise of _validate resolves with.
FieldResult(run) ==
  IF run.skipped
    THEN [valid |-> TRUE, errors |-> <<>>, id |-> run.id, field |-> run.field, scope |-> run.scope]
  ELSE IF run.isExitEarly
    THEN [valid |-> FALSE, errors |-> run.errors, id |-> run.id, field |-> run.field, scope |-> run.scope]
  ELSE [valid |-> \A k \in 1..Len(run.promises) : run.promises[k].valid,
        errors |-> run.errors \o FailedErrors(run.promises),
        id |-> run.id, field |-> run.field, scope |-> run.scope]

\* --------------------------------------------------------- result handling
RECURSIVE RemoveEach(_, _)
\* results.forEach(result => this.errors.remove(result.field, result.scope))
RemoveEach(items, results) ==
  IF results = <<>> THEN items
  ELSE RemoveEach(ErrorBagRemove(items, Head(results).field, Head(results).scope), Tail(results))

\* find(results, r => r.id === id): the first result with that id.
ResultOf(results, id) ==
  results[CHOOSE i \in 1..Len(results) :
            /\ results[i].id = id
            /\ \A j \in 1..(i - 1) : results[j].id # id]

\* _handleValidationResults without `pending: false` in the flags it sets.
_handleValidationResultsKeepsPending(flds, errs, results) ==
  LET ids == {results[i].id : i \in 1..Len(results)}
      allErrors == Flatten([i \in 1..Len(results) |-> results[i].errors])
  IN [ errors |-> ErrorBagAdd(RemoveEach(ErrorBagRemoveById(errs, ids), results), allErrors),
       fields |-> [i \in 1..Len(flds) |->
                     IF FieldMatchesAny(flds[i], {[id |-> x] : x \in ids})
                       THEN SetFlags(flds[i], [valid |-> BoolStr(ResultOf(results, flds[i].id).valid),
                                               validated |-> TRUE])
                       ELSE flds[i]] ]

\* Validator._handleValidationResults: the ErrorBag and the FieldBag after it.
_handleValidationResults(flds, errs, results) ==
  LET ids == {results[i].id : i \in 1..Len(results)}
      allErrors == Flatten([i \in 1..Len(results) |-> results[i].errors])
  IN [ errors |-> ErrorBagAdd(RemoveEach(ErrorBagRemoveById(errs, ids), results), allErrors),
       fields |-> [i \in 1..Len(flds) |->
                     IF FieldMatchesAny(flds[i], {[id |-> x] : x \in ids})
                       THEN SetFlags(flds[i], [pending |-> FALSE,
                                               valid |-> BoolStr(ResultOf(results, flds[i].id).valid),
                                               validated |-> TRUE])
                       ELSE flds[i]] ]

\* ------------------------------------------------------------ field lookup
\* Validator._resolveField(name, scope) with no owner id: the index of the
\* field in the bag, 0 for null. A selector is "#<id>" or a dotted name.
_resolveField(flds, sel, scope) ==
  IF sel.kind = "id" THEN FieldBagFind(flds, {[id |-> sel.id]})
  ELSE IF scope \notin {Null, Undefined}
    THEN FieldBagFind(flds, {[name |-> sel.name, scope |-> scope]})
  ELSE LET scoped == IF Len(sel.name) >= 2
                       THEN FieldBagFind(flds, {[name |-> Tail(sel.name), scope |-> sel.name[1]]})
                       ELSE 0
       IN IF scoped # 0 THEN scoped
          ELSE FieldBagFind(flds, {[name |-> sel.name, scope |-> Null]})

\* Validator._handleFieldNotFound: what the returned promise does.
_handleFieldNotFound ==
  IF ~strict THEN "true" ELSE "rejected"

\* ------------------------------------------------------ the validate calls
\* What a call leaves behind: the FieldBag, the validation it started (none,
\* or one task waiting for its .then callback) and what it returned:
\* "pending" for a promise that has not settled, "true" for Promise.resolve(true),
\* "rejected" for Promise.reject(...), "threw" for an exception.
Returned(flds, ret) == [fields |-> flds, tasks |-> <<>>, ret |-> ret]

\* A started validation. `asked` is the silent option the host gave the public
\* call; `silent` is what the callback that handles the results closes over.
Task(asked, kind, silent, runs) ==
  [asked |-> asked, kind |-> kind, silent |-> silent, runs |-> runs, overtaken |-> "no"]

Started(flds, task) == [fields |-> flds, tasks |-> <<task>>, ret |-> "pending"]

\* The `if (this.paused) return Promise.resolve(true)` of validateAll.
validateAllPaused == paused

\* validateAll reading each field's own value whatever it is given.
validateAllOwnValues(flds, values, silent, asked) ==
  IF validateAllPaused THEN Returned(flds, "true")
  ELSE LET matcher == IF values.kind = "string" THEN {[scope |-> values.scope]}
                      ELSE IF values.kind = "object"
                        THEN {[name |-> k, scope |-> Null] : k \in DOMAIN values.map}
                      ELSE {[scope |-> Null]}
           selected == FieldBagFilter(flds, matcher)
       IN Started(flds, Task(asked, "batch", silent,
                             [i \in 1..Len(selected) |-> _validate(selected[i], selected[i].value, FALSE)]))

\* Validator.validateAll(values, {silent}): values is a scope name, a mapping
\* from field names to values, or undefined.
validateAll(flds, values, silent, asked) ==
  IF validateAllPaused THEN Returned(flds, "true")
  ELSE LET providedValues == values.kind = "object"
           matcher == IF values.kind = "string" THEN {[scope |-> values.scope]}
                      ELSE IF providedValues
                        THEN {[name |-> k, scope |-> Null] : k \in DOMAIN values.map}
                      ELSE {[scope |-> Null]}
           selected == FieldBagFilter(flds, matcher)
       IN Started(flds, Task(asked, "batch", silent,
                             [i \in 1..Len(selected) |->
                                _validate(selected[i],
                                          IF providedValues THEN values.map[selected[i].name]
                                          ELSE selected[i].value,
                                          FALSE)]))

\* validateScopes with its paused check dropped.
validateScopesNeverPaused == FALSE

\* The `if (this.paused) return Promise.resolve(true)` of validateScopes.
validateScopesPaused == paused

\* Validator.validateScopes({silent}): every field, whatever its scope.
validateScopes(flds, silent, asked) ==
  IF validateScopesPaused THEN Returned(flds, "true")
  ELSE Started(flds, Task(asked, "batch", silent,
                          [i \in 1..Len(flds) |-> _validate(flds[i], flds[i].value, FALSE)]))

\* The `if (this.paused) return Promise.resolve(true)` of validate.
validatePaused == paused

\* The options validate hands to validateAll for a "<scope>.*" selector:
\* validateAll(matched) is called without options, so silent is undefined.
ScopeStarSilent(silent) == FALSE

\* Validator.validate(fieldDescriptor, value, {silent}). `nameDefined` is
\* whether the free identifier `name` of line 277 resolves to a global
\* (window.name in a browser) or does not (a ReferenceError is thrown).
validate(flds, sel, value, silent, nameDefined) ==
  IF validatePaused THEN Returned(flds, "true")
  ELSE IF sel.kind = "undefined" THEN validateScopes(flds, silent, silent)
  ELSE IF sel.kind = "star" THEN validateAll(flds, [kind |-> "undefined"], silent, silent)
  ELSE IF sel.kind = "scopeStar"
    THEN validateAll(flds, [kind |-> "string", scope |-> sel.scope], ScopeStarSilent(silent), silent)
  ELSE LET i == _resolveField(flds, sel, Undefined) IN
    IF i = 0
      THEN Returned(flds, IF nameDefined THEN _handleFieldNotFound ELSE "threw")
      ELSE LET f == IF ~silent THEN SetFlags(flds[i], [pending |-> TRUE]) ELSE flds[i]
               v == IF value = Undefined THEN f.value ELSE value
           IN Started([flds EXCEPT ![i] = f],
                      Task(silent, "single", silent, <<_validate(f, v, FALSE)>>))

\* ------------------------------------------------------------------ state
ValidateOps == {"validate", "validateAll", "validateScopes"}

\* The record of the step just taken: the operation, what it returned, the
\* place in `inflight` of the task it finished (0 for none) and whether that
\* task had been overtaken. A task a call starts is the last of `inflight`.
Step(op, ret, idx, late) ==
  [op |-> op, ret |-> ret, idx |-> idx, late |-> late, args |-> <<>>]

\* The record of a call whose arguments are kept.
StepOn(op, ret, args) == [Step(op, ret, 0, "no") EXCEPT !.args = args]

\* The state after `new Validator(undefined, {fastExit})` for a given host.
Start(h, stricts, fastExits) ==
  /\ fields = <<>>
  /\ errors = <<>>
  /\ RULES = InstalledRules
  /\ paused = FALSE
  /\ strict \in stricts
  /\ fastExit \in fastExits
  /\ inflight = <<>>
  /\ nextId = 1
  /\ host = h
  /\ last = Step("init", "done", 0, "no")

\* A host with a form of two fields, "a.b" and "b" of scope "a", that passes both
\* silent options, under either mode and either fastExit setting.
Init ==
  Start(Host({DotField, ScopeField}, BOOLEAN, {Undefined, "ok"}, MaxInflight, MaxAttach), BOOLEAN, BOOLEAN)

\* The selectors validate() is called with.
Selectors ==
  {[kind |-> "undefined"], [kind |-> "star"], [kind |-> "scopeStar", scope |-> "a"]}
    \cup {[kind |-> "id", id |-> n] : n \in 1..nextId}
    \cup {[kind |-> "name", name |-> n] : n \in {<<"a">>, <<"b">>, <<"a", "b">>}}

\* A call made by the host: the state after it, given what it left behind.
Called(op, out) ==
  /\ Len(inflight) + Len(out.tasks) <= host.cap
  /\ fields' = out.fields
  /\ inflight' = inflight \o out.tasks
  /\ last' = Step(op, out.ret, 0, "no")
  /\ UNCHANGED <<errors, RULES, paused, strict, fastExit, nextId, host>>

\* validate(selector, value, {silent}) for one field; a lookup that fails
\* reads the identifier `name`, which the environment defines or does not.
ValidateField ==
  \E sel \in {s \in Selectors : s.kind \in {"id", "name"}}, value \in host.values, silent \in host.silents :
    \E nameDefined \in IF paused \/ _resolveField(fields, sel, Undefined) # 0 THEN {TRUE} ELSE BOOLEAN :
      Called("validate", validate(fields, sel, value, silent, nameDefined))

\* validate(), validate("*") and validate("<scope>.*"), {silent}
ValidateMany ==
  \E sel \in {s \in Selectors : s.kind \notin {"id", "name"}}, silent \in host.silents :
    Called("validate", validate(fields, sel, Undefined, silent, TRUE))

\* validateAll(scope | undefined, {silent})
ValidateAll ==
  \E values \in {[kind |-> "undefined"], [kind |-> "string", scope |-> "a"]}, silent \in host.silents :
    Called("validateAll", validateAll(fields, values, silent, silent))

\* The mappings validateAll is given: names of the form to values.
GivenValues ==
  { (<<"a">> :> "ok") @@ (<<"b">> :> ""),
    (<<"a">> :> "ok") @@ (<<"b">> :> "ok"),
    (<<"a">> :> "") }

\* validateAll({name: value, ...}, {silent})
ValidateAllGiven ==
  \E map \in GivenValues, silent \in host.silents :
    LET out == validateAll(fields, [kind |-> "object", map |-> map], silent, silent)
    IN /\ Len(inflight) + Len(out.tasks) <= host.cap
       /\ fields' = out.fields
       /\ inflight' = inflight \o out.tasks
       /\ last' = StepOn("validateAll", out.ret, <<map>>)
       /\ UNCHANGED <<errors, RULES, paused, strict, fastExit, nextId, host>>

\* validateScopes({silent})
ValidateScopes ==
  \E silent \in host.silents :
    Called("validateScopes", validateScopes(fields, silent, silent))

\* Validator.attach(fieldOpts): an immediate field is validated through
\* validate("#id", value); any other gets an initial pass whose callback
\* writes the valid flag only.
Attach ==
  \E o \in host.form :
    /\ nextId <= host.attach
    /\ \A i \in 1..Len(fields) :
         <<fields[i].name, fields[i].scope, fields[i].vmId>> # <<o.name, o.scope, o.vmId>>
    /\ LET field == NewField(o, nextId)
           flds == Append(fields, field)
           out == IF field.immediate
                    THEN validate(flds, [kind |-> "id", id |-> field.id], field.value, FALSE,
                                  TRUE)
                    ELSE Started(flds, Task(FALSE, "initial", TRUE,
                                            <<_validate(field, field.value, TRUE)>>))
       IN /\ Len(inflight) + Len(out.tasks) <= host.cap
          /\ fields' = out.fields
          /\ inflight' = inflight \o out.tasks
          /\ last' = Step("attach", out.ret, 0, "no")
    /\ nextId' = nextId + 1
    /\ UNCHANGED <<errors, RULES, paused, strict, fastExit, host>>

\* Validator.detach(field): errors.remove(field.name, field.scope, field.id),
\* then fields.remove(field).
detach(flds, errs, i) ==
  [ errors |-> ErrorBagRemove(errs, flds[i].name, flds[i].scope),
    fields |-> RemoveAt(flds, i) ]

\* detach(field) with a Field of the bag (a name is first resolved to one).
Detach ==
  \E i \in 1..Len(fields) :
    /\ LET out == detach(fields, errors, i)
       IN /\ errors' = out.errors
          /\ fields' = out.fields
    /\ last' = Step("detach", "done", 0, "no")
    /\ UNCHANGED <<RULES, paused, strict, fastExit, inflight, nextId, host>>

\* Validator.pause()
Pause ==
  /\ ~paused
  /\ paused' = TRUE
  /\ last' = Step("pause", "done", 0, "no")
  /\ UNCHANGED <<fields, errors, RULES, strict, fastExit, inflight, nextId, host>>

\* Validator.resume()
Resume ==
  /\ paused
  /\ paused' = FALSE
  /\ last' = Step("resume", "done", 0, "no")
  /\ UNCHANGED <<fields, errors, RULES, strict, fastExit, inflight, nextId, host>>

\* Validator._guardExtend: a callable passes; otherwise validator.validate is
\* read, which throws a TypeError on null and undefined, and the extension
\* error is thrown unless it is callable.
_guardExtend(shape) ==
  IF shape = "function" THEN "done"
  ELSE IF shape \in {"null", "undefined"} THEN "TypeError"
  ELSE IF shape # "withValidate" THEN "ExtensionError"
  ELSE "done"

\* Validator._merge: RULES[name] = {validate, options}.
_merge(rules, name, validator, options) ==
  (name :> [validate |-> validator, options |-> options]) @@ rules

\* Validator.extend(name, validator) up to its return or its throw.
extend(rules, c) ==
  LET guard == _guardExtend(c.shape)
  IN IF guard # "done" THEN [rules |-> rules, ret |-> guard]
     ELSE [rules |-> _merge(rules, c.name, c.validate, DefaultOptions), ret |-> "done"]

\* Validator.extend(name, validator)
Extend ==
  \E c \in host.extends :
    LET out == extend(RULES, c)
    IN /\ RULES' = out.rules
       /\ last' = StepOn("extend", out.ret, <<c.name, c.shape>>)
       /\ UNCHANGED <<fields, errors, paused, strict, fastExit, inflight, nextId, host>>

\* Validator.remove(name): delete RULES[name].
Remove ==
  \E n \in RemoveCalls :
    /\ n \in DOMAIN RULES
    /\ RULES' = [r \in DOMAIN RULES \ {n} |-> RULES[r]]
    /\ last' = Step("remove", "done", 0, "no")
    /\ UNCHANGED <<fields, errors, paused, strict, fastExit, inflight, nextId, host>>

\* --------------------------------------------------- the ErrorBag by hand
\* An error the host hands to errors.add: no rule, a message of its own and no
\* id, written 0, which is the id of no field.
ManualError(field, scope) ==
  [id |-> 0, vmId |-> Undefined, field |-> field, rule |-> Undefined,
   scope |-> scope, msg |-> <<"msg", field, scope>>]

BagNames == {<<"a">>, <<"b">>, <<"a", "b">>}
BagScopes == {Undefined, Null, "a"}

\* validator.errors.add(error)
ErrorsAdd ==
  \E field \in BagNames, scope \in BagScopes :
    /\ Len(errors) < MaxBag
    /\ errors' = ErrorBagAdd(errors, <<ManualError(field, scope)>>)
    /\ last' = StepOn("add", "done", <<field, scope>>)
    /\ UNCHANGED <<fields, RULES, paused, strict, fastExit, inflight, nextId, host>>

\* The scope update() is given.
NewScopes == {"b"}

\* Validator.update(id, {scope}): nothing when "#id" resolves to no field,
\* else errors.update(id, {scope}).
Update ==
  \E id \in 1..nextId, scope \in NewScopes :
    /\ errors' = IF _resolveField(fields, [kind |-> "id", id |-> id], Undefined) = 0 THEN errors
                 ELSE ErrorBagUpdate(errors, id, scope)
    /\ last' = StepOn("update", "done", <<id, scope>>)
    /\ UNCHANGED <<fields, RULES, paused, strict, fastExit, inflight, nextId, host>>

\* validator.errors.update(id, {scope})
ErrorsUpdate ==
  \E id \in 1..nextId, scope \in NewScopes :
    /\ errors' = ErrorBagUpdate(errors, id, scope)
    /\ last' = StepOn("errors.update", "done", <<id, scope>>)
    /\ UNCHANGED <<fields, RULES, paused, strict, fastExit, inflight, nextId, host>>

\* The errors of a bag that is queried: fields "b" and "a.b", with and
\* without the scope "a" and the rule "rb", each with a message of its own.
QueriedError(field, scope, rule, msg) ==
  [id |-> 0, vmId |-> Undefined, field |-> field, rule |-> rule, scope |-> scope, msg |-> msg]

QueriedErrors ==
  { QueriedError(<<"b">>, "a", Undefined, "m1"),
    QueriedError(<<"b">>, "a", "rb", "m2"),
    QueriedError(<<"b">>, Null, "rb", "m3"),
    QueriedError(<<"a", "b">>, Null, Undefined, "m4"),
    QueriedError(<<"a", "b">>, Null, "rb", "m5"),
    QueriedError(<<"a", "b">>, "a", "ra", "m6") }

\* validator.errors.first(field, scope), field being a name or "name:rule":
\* the step keeps the arguments and the message returned.
ErrorsFirst ==
  \E field \in BagNames, rule \in {Undefined, "rb"}, scope \in BagScopes :
    /\ last' = StepOn("first", "done", <<field, rule, scope, first(errors, field, rule, scope)>>)
    /\ UNCHANGED <<fields, errors, RULES, paused, strict, fastExit, inflight, nextId, host>>

\* validator.errors.remove(field, scope)
ErrorsRemove ==
  \E field \in BagNames, scope \in BagScopes :
    /\ errors' = ErrorBagRemove(errors, field, scope)
    /\ last' = StepOn("remove", "done", <<field, scope>>)
    /\ UNCHANGED <<fields, RULES, paused, strict, fastExit, inflight, nextId, host>>

\* ------------------------------------------------------------- settlement
\* The promise of an asynchronous rule settles: promise k of run j of task i.
\* A promise the scan left behind when it exited early settles too.
SettleRule ==
  \E i \in 1..Len(inflight) :
    \E j \in 1..Len(inflight[i].runs) :
      \E k \in 1..Len(inflight[i].runs[j].promises) :
        /\ inflight[i].runs[j].promises[k].state = "pending"
        /\ inflight' = [inflight EXCEPT ![i].runs[j].promises[k].state = "fulfilled"]
        /\ last' = Step("settleRule", "done", 0, "no")
        /\ UNCHANGED <<fields, errors, RULES, paused, strict, fastExit, nextId, host>>

\* The promise the callback of a task is chained on has rejected.
TaskRejected(t) == \E j \in 1..Len(t.runs) : RunRejected(t.runs[j])

\* The promise resolving as soon as one of the per-field promises has.
TaskResolvedAny(t) == \E j \in 1..Len(t.runs) : RunResolved(t.runs[j])

\* The promise the callback of a task is chained on has resolved.
TaskResolved(t) == \A j \in 1..Len(t.runs) : RunResolved(t.runs[j])

TaskIds(t) == {t.runs[j].id : j \in 1..Len(t.runs)}

\* The callback of attach's initial pass: field.flags.valid = result.valid.
InitialCallback(flds, result) ==
  [i \in 1..Len(flds) |->
     IF flds[i].id = result.id THEN SetFlags(flds[i], [valid |-> BoolStr(result.valid)])
     ELSE flds[i]]

\* The callback dropping the results of a validation that a later one on the
\* same field has overtaken.
ValidateCallbackDropsStale(flds, errs, t, results) ==
  IF ~t.silent /\ t.overtaken = "no" THEN _handleValidationResults(flds, errs, results)
  ELSE [errors |-> errs, fields |-> flds]

\* The .then callback of validate, validateAll and validateScopes:
\* `if (!silent) this._handleValidationResults(results)`.
ValidateCallback(flds, errs, t, results) ==
  IF ~t.silent THEN _handleValidationResults(flds, errs, results)
  ELSE [errors |-> errs, fields |-> flds]

\* The callback of task i runs (or, the promise having rejected, does not):
\* the task leaves. An earlier call's task on one of the same fields that is
\* still in flight is marked overtaken, with the validity this task returned,
\* when this task's results were handled.
Settle ==
  \E i \in 1..Len(inflight) :
    LET t == inflight[i]
        results == [j \in 1..Len(t.runs) |-> FieldResult(t.runs[j])]
        handled == ~TaskRejected(t) /\ t.kind # "initial" /\ ~t.silent
        rest == [k \in 1..Len(inflight) |->
                   IF k < i /\ handled /\ TaskIds(inflight[k]) \cap TaskIds(t) # {}
                     THEN [inflight[k] EXCEPT !.overtaken =
                             BoolStr(\A j \in 1..Len(results) : results[j].valid)]
                     ELSE inflight[k]]
    IN /\ TaskRejected(t) \/ TaskResolved(t)
       /\ inflight' = RemoveAt(rest, i)
       /\ IF TaskRejected(t)
            THEN /\ UNCHANGED <<fields, errors>>
                 /\ last' = Step("settle", "rejected", i, t.overtaken)
          ELSE IF t.kind = "initial"
            THEN /\ fields' = InitialCallback(fields, results[1])
                 /\ UNCHANGED errors
                 /\ last' = Step("settle", "done", i, t.overtaken)
          ELSE LET out == ValidateCallback(fields, errors, t, results)
               IN /\ fields' = out.fields
                  /\ errors' = out.errors
                  /\ last' = Step("settle",
                                  BoolStr(\A j \in 1..Len(results) : results[j].valid),
                                  i, t.overtaken)
       /\ UNCHANGED <<RULES, paused, strict, fastExit, nextId, host>>

Next ==
  \/ Attach
  \/ Detach
  \/ ValidateField
  \/ ValidateMany
  \/ ValidateAll
  \/ ValidateScopes
  \/ SettleRule
  \/ Settle

Spec == Init /\ [][Next]_vars

\* --------------------------------------------------------- pause and resume
InitPause ==
  Start(Host({SyncField, ScopeField}, {FALSE}, {Undefined}, MaxInflight, MaxSolo), {TRUE}, {TRUE})

NextPause ==
  \/ Attach
  \/ Detach
  \/ ValidateField
  \/ ValidateMany
  \/ ValidateAll
  \/ ValidateScopes
  \/ Pause
  \/ Resume
  \/ SettleRule
  \/ Settle

SpecPause == InitPause /\ [][NextPause]_vars

\* ------------------------------------------------------- the rule registry
\* A form with a field naming a rule that was never registered and a field
\* whose only rule the host removes and registers again.
InitRegistry ==
  Start(Host({LostField, DotField}, {FALSE}, {Undefined, "", "ok"}, MaxInflight, MaxAttach), {TRUE}, BOOLEAN)

NextRegistry ==
  \/ Attach
  \/ Detach
  \/ ValidateField
  \/ ValidateMany
  \/ ValidateAll
  \/ ValidateScopes
  \/ Extend
  \/ Remove
  \/ SettleRule
  \/ Settle

SpecRegistry == InitRegistry /\ [][NextRegistry]_vars

\* --------------------------------------------------------------- bailing
\* A form of one field with two synchronous rules, its bails option left
\* undefined, set to false or set to true, under either fastExit setting, with
\* values that fail both rules, the second rule and neither.
InitBail ==
  \E o \in {SyncField, OffField, FirmField} :
    Start(Host({o}, {FALSE}, {Undefined, "", "ok"}, MaxInflight, MaxSolo), {TRUE}, BOOLEAN)

\* No rule of these forms returns a promise: nothing is left to settle but
\* the validations themselves.
NextBail ==
  \/ Attach
  \/ Detach
  \/ ValidateField
  \/ ValidateMany
  \/ ValidateAll
  \/ ValidateScopes
  \/ Settle

SpecBail == InitBail /\ [][NextBail]_vars

\* ------------------------------------------------------ the ErrorBag alone
\* A host that only adds entries to the ErrorBag and removes them.
InitBag ==
  Start(Host({}, {FALSE}, {Undefined}, MaxInflight, MaxSolo), {TRUE}, {TRUE})

NextBag ==
  \/ ErrorsAdd
  \/ ErrorsRemove

SpecBag == InitBag /\ [][NextBag]_vars

\* ------------------------------------------------------ the ErrorBag queried
\* Every bag of up to MaxBag of the queried errors, as a host's errors.add
\* calls left it; the host asks for first messages.
InitFirst ==
  /\ fields = <<>>
  /\ errors \in UNION {[1..n -> QueriedErrors] : n \in 0..MaxBag}
  /\ RULES = InstalledRules
  /\ paused = FALSE
  /\ strict = TRUE
  /\ fastExit = TRUE
  /\ inflight = <<>>
  /\ nextId = 1
  /\ host = Host({}, {FALSE}, {Undefined}, MaxInflight, MaxSolo)
  /\ last = Step("init", "done", 0, "no")

NextFirst == ErrorsFirst

SpecFirst == InitFirst /\ [][NextFirst]_vars

\* ------------------------------------------------------- errors relocated
\* A form of two fields that fail both their rules on the empty string, which
\* the host validates and whose errors it moves to other scopes.
InitUpdate ==
  Start(Host({SyncField, OffField}, {FALSE}, {""}, MaxInflight, MaxAttach),
        {TRUE}, {FALSE})

NextUpdate ==
  \/ Attach
  \/ ValidateField
  \/ Settle
  \/ Update
  \/ ErrorsUpdate

SpecUpdate == InitUpdate /\ [][NextUpdate]_vars

\* ------------------------------------------------------- validations ending
\* A form of one field, with an asynchronous rule or with a rule that was
\* never registered, which the host validates. Every promise settles in the
\* end and every callback that can run does: the event loop is fair to both.
InitPending ==
  \E o \in {SlowField, LostField} :
    Start(Host({o}, {FALSE}, {Undefined, "ok"}, MaxInflight, MaxSolo), {TRUE}, BOOLEAN)

NextPending ==
  \/ Attach
  \/ ValidateField
  \/ SettleRule
  \/ Settle

SpecPending ==
  InitPending /\ [][NextPending]_vars /\ WF_vars(SettleRule) /\ WF_vars(Settle)

\* ---------------------------------------------------------- the flags view
\* A form of three fields, two of them in scope "a", that the host attaches,
\* validates and detaches.
InitFlags ==
  Start(Host({SyncField, ScopeField, OffField}, {FALSE}, {Undefined}, MaxInflight, MaxAttach),
        {TRUE}, {TRUE})

NextFlags ==
  \/ Attach
  \/ Detach
  \/ ValidateField
  \/ SettleRule
  \/ Settle

SpecFlags == InitFlags /\ [][NextFlags]_vars

\* ------------------------------------------------------------- batches
\* A form of two fields with an asynchronous rule each, one without scope and
\* one in scope "a", each holding a value that passes or fails its rules; the
\* host validates them in batches.
InitBatch ==
  \E v, w \in {"mid", "ok"} :
    Start(Host({[SlowField EXCEPT !.value = v], [ScopeField EXCEPT !.value = w]},
               BOOLEAN, {Undefined}, MaxInflight, MaxAttach), {TRUE}, {TRUE})

NextBatch ==
  \/ Attach
  \/ ValidateMany
  \/ ValidateAll
  \/ ValidateScopes
  \/ SettleRule
  \/ Settle

SpecBatch == InitBatch /\ [][NextBatch]_vars

\* ----------------------------------------------------------- given values
\* A form of three fields with synchronous rules, two without scope and one
\* in scope "a" that shares its name with one of them; the host validates
\* them with mappings of values, and with their own.
InitGiven ==
  Start(Host({SyncField, FirmField, OffField}, {FALSE}, {Undefined}, MaxInflight, MaxAttach),
        {TRUE}, BOOLEAN)

NextGiven ==
  \/ Attach
  \/ ValidateAll
  \/ ValidateAllGiven
  \/ Settle

SpecGiven == InitGiven /\ [][NextGiven]_vars

\* ----------------------------------------------------------- initial pass
\* A form of two fields that are not immediate, one with a rule registered as
\* not immediate and one with an asynchronous rule; the first starts with a
\* value its immediate rule accepts, one it rejects, or none. The host also
\* validates single fields.
InitLazy ==
  \E v \in {"mid", "no", ""} :
    Start(Host({[LazyField EXCEPT !.value = v], SlowField}, {FALSE}, {"ok"},
               MaxInflight, MaxAttach), {TRUE}, BOOLEAN)

NextLazy ==
  \/ Attach
  \/ ValidateField
  \/ SettleRule
  \/ Settle

SpecLazy == InitLazy /\ [][NextLazy]_vars

\* --------------------------------------------------------------- skipping
\* A form of one field: optional with two synchronous rules, without rules,
\* or disabled and required, its bails option undefined, true or false; the
\* host validates it with its own value, null, the empty string and "ok".
InitSkip ==
  \E o \in {OptionalField, BareField, DisabledField}, b \in {Undefined, "true", "false"} :
    Start(Host({[o EXCEPT !.bails = b]}, {FALSE}, {Undefined, Null, "", "ok"},
               MaxInflight, MaxSolo), {TRUE}, BOOLEAN)

SpecSkip == InitSkip /\ [][NextBail]_vars

\* -------------------------------------------------------- extending rules
\* A host that registers and removes rules, passing extend validators of
\* every shape.
InitExtend ==
  Start([Host({}, {FALSE}, {Undefined}, MaxInflight, MaxSolo) EXCEPT !.extends = GuardedCalls],
        {TRUE}, {TRUE})

NextExtend ==
  \/ Extend
  \/ Remove

SpecExtend == InitExtend /\ [][NextExtend]_vars

\* ------------------------------------------------------ errors added by hand
\* A form of one field, "a.b" or "b" of scope "a", whose host validates it and
\* also adds errors to the ErrorBag itself.
InitManual ==
  Start(Host({DotField, ScopeField}, {FALSE}, {Undefined, "ok"}, MaxInflight, MaxSolo),
        {TRUE}, {TRUE})

NextManual ==
  \/ Attach
  \/ ValidateField
  \/ ErrorsAdd
  \/ SettleRule
  \/ Settle

SpecManual == InitManual /\ [][NextManual]_vars

\* ------------------------------------------------------ two host instances
\* Two host instances register a field of the same name and scope each.
InitOwners ==
  Start(Host({SyncField, TwinField}, {FALSE}, {Undefined, "ok"}, MaxInflight, MaxAttach), {TRUE}, {TRUE})

SpecOwners == InitOwners /\ [][NextBail]_vars

\* ------------------------------------------------- validations in flight
\* One field with an asynchronous rule and a host that calls validate again
\* before the previous validation has settled.
InitRace ==
  Start(Host({DotField}, {FALSE}, {Undefined, "ok"}, MaxRacing, MaxSolo), {TRUE}, {TRUE})

\* validateAll and validateScopes are reached through validate(), validate("*")
\* and validate("<scope>.*").
NextRace ==
  \/ Attach
  \/ Detach
  \/ ValidateField
  \/ ValidateMany
  \/ SettleRule
  \/ Settle

SpecRace == InitRace /\ [][NextRace]_vars

\* ===================================================================== C1
\* C1: while the validator is paused, every call to validate, validateAll or
\* validateScopes resolves true, starts no validation (so no rule's validate
\* function is invoked) and leaves the ErrorBag and every field's flags as
\* they were.
C1_PausedCallsAreNoOps ==
  [][(paused /\ last'.op \in ValidateOps)
       => (last'.ret = "true" /\ UNCHANGED <<fields, errors, inflight>>)]_vars

\* A validate call was made while paused on a form whose attached field would
\* fail its rules, and the field is still unvalidated with an empty ErrorBag.
C1_Witness ==
  /\ paused
  /\ last.op \in ValidateOps
  /\ last.ret = "true"
  /\ \E i \in 1..Len(fields) : fields[i].rules = <<"ra", "rb">> /\ ~fields[i].flags.validated
  /\ errors = <<>>
  /\ inflight = <<>>

\* ===================================================================== C2
\* The flags of the fields of a bag, in bag order.
Flags(flds) == [i \in 1..Len(flds) |-> flds[i].flags]

\* The step is a validate, validateAll or validateScopes call that was given
\* silent = true and started a validation.
SilentCall ==
  /\ last'.op \in ValidateOps
  /\ last'.ret = "pending"
  /\ inflight'[Len(inflight')].asked

\* The step runs the callback of a validation started by such a call.
SilentSettle ==
  /\ last'.op = "settle"
  /\ inflight[last'.idx].kind # "initial"
  /\ inflight[last'.idx].asked

\* C2: a call to validate, validateAll or validateScopes with silent = true,
\* whatever the selector, never adds or removes an ErrorBag entry and never
\* changes a field's pending, valid or validated flag: neither the call nor
\* the callback it leaves behind does.
C2_SilentChangesNothing ==
  [][(SilentCall \/ SilentSettle) => (errors' = errors /\ Flags(fields') = Flags(fields))]_vars

\* ===================================================================== C3
\* The step is a validate call whose selector resolved to no field: the
\* validator is not paused and the call returned without starting anything.
NotFoundCall ==
  /\ ~paused
  /\ last'.op = "validate"
  /\ last'.ret # "pending"

\* C3: validate with a selector that resolves to no field rejects when the
\* validator is strict and resolves true when it is not, and leaves the
\* ErrorBag and the fields as they were.
C3_NotFoundRejectsOrResolves ==
  [][NotFoundCall => /\ last'.ret = (IF strict THEN "rejected" ELSE "true")
                     /\ UNCHANGED <<fields, errors>>]_vars

\* ===================================================================== C4
\* C4: a validate, validateAll or validateScopes call that validates a field
\* whose rule set names a rule absent from the registry (never registered, or
\* registered with extend and then removed) rejects; it never resolves with a
\* validity result. A field the skip policy leaves unvalidated is set aside.
C4_UnknownRuleRejects ==
  [][(/\ last'.op = "settle"
      /\ inflight[last'.idx].kind # "initial"
      /\ \E j \in 1..Len(inflight[last'.idx].runs) :
           /\ inflight[last'.idx].runs[j].absent # {}
           /\ ~inflight[last'.idx].runs[j].skipped)
       => last'.ret = "rejected"]_vars

\* ===================================================================== C5
\* The rules of a list are all registered with synchronous validate functions.
AllSync(rules) ==
  \A k \in 1..Len(rules) :
    rules[k] \in DOMAIN RULES /\ ~RuleLib[RULES[rules[k]].validate].async

\* The validate function registered under the rule does not accept the value.
RuleFails(rule, value) == value \notin RuleLib[RULES[rule].validate].accepts

\* The error a failing rule contributes to the result of a validation.
ErrorOf(run, rule) ==
  [id |-> run.id, vmId |-> "vm1", field |-> run.field, rule |-> rule, scope |-> run.scope]

\* One error per rule of the list that fails on the validated value, in order.
ErrorsOfFailing(run, rules) ==
  LET failing == SelectSeq(rules, LAMBDA r : RuleFails(r, run.value))
  IN [k \in 1..Len(failing) |-> ErrorOf(run, failing[k])]

\* Bail as the claim states it: field.bails if defined, else fastExit.
BailActive(f) == IF f.bails = Undefined THEN fastExit ELSE f.bails = "true"

\* C5: for a field whose rules are all synchronous and whose validation is
\* run: when bail is active (field.bails if defined, else fastExit) the field
\* result carries exactly one error, that of the first failing rule in
\* declaration order, and exactly the rules up to it are invoked; when bail
\* is inactive every rule is invoked and the result carries one error per
\* failing rule.
C5_BailSemantics ==
  \A i \in 1..Len(inflight) : \A j \in 1..Len(inflight[i].runs) : \A n \in 1..Len(fields) :
    LET run == inflight[i].runs[j]
        f == fields[n]
        failing == {k \in 1..Len(f.rules) : RuleFails(f.rules[k], run.value)}
    IN (f.id = run.id /\ AllSync(f.rules) /\ ~run.skipped) =>
         IF BailActive(f) /\ failing # {}
           THEN LET lowest == CHOOSE k \in failing : \A m \in failing : k <= m
                IN /\ FieldResult(run).errors = <<ErrorOf(run, f.rules[lowest])>>
                   /\ run.invoked = SubSeq(f.rules, 1, lowest)
           ELSE /\ run.invoked = f.rules
                /\ FieldResult(run).errors = ErrorsOfFailing(run, f.rules)

\* A validation that bailed at the first of two failing rules without invoking
\* the second is in flight.
C5_Witness ==
  \E i \in 1..Len(inflight) : \E j \in 1..Len(inflight[i].runs) : \E n \in 1..Len(fields) :
    /\ fields[n].id = inflight[i].runs[j].id
    /\ AllSync(fields[n].rules)
    /\ Len(fields[n].rules) = 2
    /\ \A k \in 1..Len(fields[n].rules) : RuleFails(fields[n].rules[k], inflight[i].runs[j].value)
    /\ inflight[i].runs[j].isExitEarly
    /\ inflight[i].runs[j].invoked = <<fields[n].rules[1]>>
    /\ Len(FieldResult(inflight[i].runs[j]).errors) = 1

\* ===================================================================== C6
\* C6: when the callback of a validation receives its field results, every
\* rule outcome collected during a field's scan has settled, whether or not
\* the scan bailed early, and the field result's errors are the early-bail
\* error followed by the errors of every failed collected outcome.
C6_AsyncOutcomesAwaited ==
  [][(last'.op = "settle" /\ last'.ret # "rejected")
       => \A j \in 1..Len(inflight[last'.idx].runs) :
            LET run == inflight[last'.idx].runs[j]
            IN ~run.skipped =>
                 /\ \A k \in 1..Len(run.promises) : run.promises[k].state # "pending"
                 /\ FieldResult(run).errors
                      = run.errors \o Flatten([k \in 1..Len(run.promises) |-> run.promises[k].errors])]_vars

\* ===================================================================== C7
\* The entries of the ErrorBag that carry a field's id, in order.
EntriesOf(errs, id) == SelectSeq(errs, LAMBDA e : e.id = id)

\* The step is a non-silent validate of one field (attach validates an
\* immediate field so) that started a validation.
LoudValidate ==
  /\ last'.op \in {"validate", "attach"}
  /\ last'.ret = "pending"
  /\ inflight'[Len(inflight')].kind = "single"
  /\ ~inflight'[Len(inflight')].silent

\* The validation ran one rule, asynchronous, whose outcome is false.
OneAsyncFalse(run) ==
  /\ ~run.skipped
  /\ Len(run.rules) = 1
  /\ Len(run.promises) = 1
  /\ run.promises[1].promise /\ run.promises[1].called /\ ~run.promises[1].valid

\* The step settles such a validation started by a non-silent validate.
LoudSettle ==
  /\ last'.op = "settle"
  /\ inflight[last'.idx].kind = "single"
  /\ ~inflight[last'.idx].silent
  /\ OneAsyncFalse(inflight[last'.idx].runs[1])

\* C7: a non-silent validate of a field sets its pending flag; the flag of an
\* attached field is cleared by nothing but the settling of a validation of
\* that field; and when a validation with one asynchronous rule whose outcome
\* is false settles, the call resolves false, pending is false and the
\* ErrorBag holds exactly one error for the field.
C7_PendingUntilSettled ==
  [][/\ LoudValidate =>
          \A n \in 1..Len(fields') :
            fields'[n].id = inflight'[Len(inflight')].runs[1].id => fields'[n].flags.pending
     /\ \A n \in 1..Len(fields) : \A m \in 1..Len(fields') :
          (fields[n].id = fields'[m].id /\ fields[n].flags.pending /\ ~fields'[m].flags.pending)
            => (last'.op = "settle" /\ fields[n].id \in TaskIds(inflight[last'.idx]))
     /\ LoudSettle =>
          /\ last'.ret = "false"
          /\ \A m \in 1..Len(fields') :
               fields'[m].id = inflight[last'.idx].runs[1].id => ~fields'[m].flags.pending
          /\ Len(EntriesOf(errors', inflight[last'.idx].runs[1].id)) = 1]_vars

\* The only validation in flight, of a field with one asynchronous rule, has
\* settled to false: the field is no longer pending and has one error.
C7_Witness ==
  /\ last.op = "settle"
  /\ last.ret = "false"
  /\ last.late = "no"
  /\ inflight = <<>>
  /\ Len(fields) = 1
  /\ fields[1].rules = <<"rc">>
  /\ ~fields[1].flags.pending
  /\ fields[1].flags.validated
  /\ Len(EntriesOf(errors, fields[1].id)) = 1

\* ===================================================================== C8
\* C8: each non-silent validation that settles writes its own result: right
\* after it, the field's entries in the ErrorBag are the errors of the rules
\* that fail on the value that validation was given, and the field's valid
\* flag is that validation's validity, whether or not a validation issued
\* later has settled before it.
C8_LastSettledWins ==
  [][(/\ last'.op = "settle"
      /\ last'.ret \in {"true", "false"}
      /\ ~inflight[last'.idx].silent)
       => \A j \in 1..Len(inflight[last'.idx].runs) :
            LET run == inflight[last'.idx].runs[j]
                expected == IF run.skipped THEN <<>> ELSE ErrorsOfFailing(run, run.rules)
            IN ~run.isExitEarly =>
                 /\ EntriesOf(errors', run.id) = expected
                 /\ \A m \in 1..Len(fields') :
                      fields'[m].id = run.id
                        => fields'[m].flags.valid = BoolStr(expected = <<>>)]_vars

\* A validation issued first has settled last, after a later one that found
\* the field invalid: the field is valid and has no entry in the ErrorBag.
C8_Witness ==
  /\ last.op = "settle"
  /\ last.late = "false"
  /\ last.ret = "true"
  /\ inflight = <<>>
  /\ nextId = 2
  /\ Len(fields) = 1
  /\ fields[1].flags.valid = "true"
  /\ EntriesOf(errors, fields[1].id) = <<>>

\* ==================================================================== C11
\* Two fields have the same name and scope and different owners.
Twins(f, g) == f.name = g.name /\ f.scope = g.scope /\ f.vmId # g.vmId

\* The step is the detach of field f, or the result handling of a non-silent
\* validation of field f alone.
ActsOn(f) ==
  \/ /\ last'.op = "detach"
     /\ \A m \in 1..Len(fields') : fields'[m].id # f.id
  \/ /\ last'.op = "settle"
     /\ last'.ret \in {"true", "false"}
     /\ ~inflight[last'.idx].silent
     /\ TaskIds(inflight[last'.idx]) = {f.id}

\* C11: for two attached fields with the same name and scope and different
\* vmId, the result handling of a non-silent validation of one of them, or
\* its detach, leaves the other's ErrorBag entries and flags unchanged.
C11_OwnersDoNotCollide ==
  [][\A k \in 1..Len(fields) : \A n \in 1..Len(fields) :
       (Twins(fields[k], fields[n]) /\ ActsOn(fields[k]))
         => /\ EntriesOf(errors', fields[n].id) = EntriesOf(errors, fields[n].id)
            /\ \E m \in 1..Len(fields') :
                 fields'[m].id = fields[n].id /\ fields'[m].flags = fields[n].flags]_vars

\* ==================================================================== C12
\* The bag holds no entry of e's field and scope other than its last one.
NoOtherEntry(items, e) ==
  \A i \in 1..(Len(items) - 1) : items[i].field # e.field \/ items[i].scope # e.scope

\* C12: for every error e, right after add(e) collect() holds e's message
\* under the key e.field, and add(e) followed by remove(e.field, e.scope)
\* leaves count() at its value before the add. The round trip is stated for
\* every ErrorBag content that holds no other entry of e's field and scope
\* (remove takes all the entries of a field).
C12_AddRemoveRoundTrip ==
  [][/\ last'.op = "add" =>
          LET e == errors'[Len(errors')]
          IN /\ e.field \in DOMAIN collect(errors')
             /\ \E k \in 1..Len(collect(errors')[e.field]) : collect(errors')[e.field][k] = e.msg
     /\ (/\ last.op = "add"
         /\ last'.op = "remove"
         /\ last'.args = <<errors[Len(errors)].field, errors[Len(errors)].scope>>
         /\ NoOtherEntry(errors, errors[Len(errors)]))
          => count(errors') = count(errors) - 1]_vars

\* ==================================================================== C13
\* The per-field validation has settled: it was skipped, it bailed early, or
\* every outcome it collected has settled.
Joined(run) ==
  run.skipped \/ run.isExitEarly
    \/ \A k \in 1..Len(run.promises) : run.promises[k].state # "pending"

\* The validation ran no rule that fails on its value.
ExpectedValid(run) ==
  run.skipped \/ \A k \in 1..Len(run.rules) : ~RuleFails(run.rules[k], run.value)

\* The step is a call that started a batch: validateAll, validateScopes or a
\* validate that delegates to one of them.
BatchCall ==
  /\ last'.op \in ValidateOps
  /\ last'.ret = "pending"
  /\ inflight'[Len(inflight')].kind = "batch"

\* The step runs the callback of a batch.
BatchSettle ==
  /\ last'.op = "settle"
  /\ last'.ret # "rejected"
  /\ inflight[last'.idx].kind = "batch"

\* C13: a batch call writes no ErrorBag entry and no flag; its callback runs
\* once every field of the batch has settled, resolves true if and only if
\* every field's result is valid, and, unless silent, handles all the results
\* in that one step.
C13_BatchJoinsThenHandles ==
  [][/\ BatchCall => UNCHANGED <<fields, errors>>
     /\ BatchSettle =>
          LET t == inflight[last'.idx]
          IN /\ \A j \in 1..Len(t.runs) : Joined(t.runs[j])
             /\ last'.ret = BoolStr(\A j \in 1..Len(t.runs) : ExpectedValid(t.runs[j]))
             /\ ~t.silent =>
                  \A m \in 1..Len(fields') :
                    fields'[m].id \in TaskIds(t) => fields'[m].flags.validated]_vars

\* A batch of two fields is in flight: one field has settled, the other has
\* not, and no ErrorBag entry and no validated flag has been written.
C13_Witness ==
  /\ errors = <<>>
  /\ \A n \in 1..Len(fields) : ~fields[n].flags.validated
  /\ \E i \in 1..Len(inflight) :
       /\ inflight[i].kind = "batch"
       /\ ~inflight[i].silent
       /\ Len(inflight[i].runs) = 2
       /\ \E j, k \in 1..2 : Joined(inflight[i].runs[j]) /\ ~Joined(inflight[i].runs[k])

\* ==================================================================== C14
\* The step is a validateAll call given a mapping that started a batch.
GivenCall ==
  /\ last'.op = "validateAll"
  /\ last'.args # <<>>
  /\ last'.ret = "pending"

\* C14: validateAll given a mapping from names to values validates exactly
\* the scope-less fields whose name is a key of the mapping, in bag order,
\* each against the mapped value; its callback resolves true if and only if
\* no rule fails on the given values and leaves ErrorBag entries for exactly
\* the fields whose given value fails a rule.
C14_GivenValuesAreValidated ==
  [][/\ GivenCall =>
          LET map == last'.args[1]
              runs == inflight'[Len(inflight')].runs
              named == SelectSeq(fields, LAMBDA f : f.scope = Null /\ f.name \in DOMAIN map)
          IN /\ Len(runs) = Len(named)
             /\ \A j \in 1..Len(runs) :
                  runs[j].id = named[j].id /\ runs[j].value = map[named[j].name]
     /\ (BatchSettle /\ ~inflight[last'.idx].silent) =>
          LET t == inflight[last'.idx]
          IN /\ last'.ret = BoolStr(\A j \in 1..Len(t.runs) : ExpectedValid(t.runs[j]))
             /\ \A j \in 1..Len(t.runs) :
                  (EntriesOf(errors', t.runs[j].id) = <<>>) <=> ExpectedValid(t.runs[j])]_vars

\* A mapping was validated: a field whose own value fails a rule was given a
\* value that passes and has no entry, another was given a value that fails
\* and has one, and the call resolved false.
C14_Witness ==
  /\ last.op = "settle"
  /\ last.ret = "false"
  /\ \E n, m \in 1..Len(fields) :
       /\ fields[n].flags.valid = "true"
       /\ \E k \in 1..Len(fields[n].rules) : RuleFails(fields[n].rules[k], fields[n].value)
       /\ EntriesOf(errors, fields[n].id) = <<>>
       /\ fields[m].flags.valid = "false"
       /\ fields[m].flags.validated
       /\ EntriesOf(errors, fields[m].id) # <<>>

\* ==================================================================== C15
\* The rule is registered as immediate.
IsImmediate(rule) == rule \in DOMAIN RULES /\ RULES[rule].options.immediate

\* The step attaches a field whose immediate flag is not set.
AttachLazy ==
  /\ last'.op = "attach"
  /\ ~fields'[Len(fields')].immediate

\* The step runs the callback of the pass attach started.
InitialSettle ==
  /\ last'.op = "settle"
  /\ last'.ret = "done"
  /\ inflight[last'.idx].kind = "initial"

\* C15: attaching a field whose immediate flag is not set invokes only rules
\* registered as immediate and writes no flag and no ErrorBag entry; when
\* that pass settles, its callback changes nothing but the valid flag of the
\* field, which becomes the validity of the value under the immediate rules:
\* the ErrorBag and every pending and validated flag are left as they were.
C15_InitialPassWritesValidOnly ==
  [][/\ AttachLazy =>
          LET run == inflight'[Len(inflight')].runs[1]
          IN /\ Len(inflight') = Len(inflight) + 1
             /\ inflight'[Len(inflight')].kind = "initial"
             /\ \A k \in 1..Len(run.invoked) : IsImmediate(run.invoked[k])
             /\ errors' = errors
             /\ fields' = Append(fields, fields'[Len(fields')])
             /\ fields'[Len(fields')].flags = InitialFlags
     /\ InitialSettle =>
          LET run == inflight[last'.idx].runs[1]
          IN /\ errors' = errors
             /\ Len(fields') = Len(fields)
             /\ \A n \in 1..Len(fields) :
                  /\ [fields'[n] EXCEPT !.flags.valid = fields[n].flags.valid] = fields[n]
                  /\ fields[n].id # run.id => fields'[n] = fields[n]
                  /\ fields[n].id = run.id =>
                       fields'[n].flags.valid =
                         BoolStr(run.skipped \/
                                 \A k \in 1..Len(fields[n].rules) :
                                   IsImmediate(fields[n].rules[k]) =>
                                     ~RuleFails(fields[n].rules[k], run.value))]_vars

\* An initial pass settled on a field one of whose rules, not registered as
\* immediate, fails on its value: the field is valid, neither pending nor
\* validated, and the ErrorBag is empty.
C15_Witness ==
  /\ last.op = "settle"
  /\ last.ret = "done"
  /\ errors = <<>>
  /\ \E n \in 1..Len(fields) :
       /\ fields[n].flags = [pending |-> FALSE, valid |-> "true", validated |-> FALSE]
       /\ fields[n].value # ""
       /\ \E k \in 1..Len(fields[n].rules) :
            /\ ~IsImmediate(fields[n].rules[k])
            /\ RuleFails(fields[n].rules[k], fields[n].value)

\* ==================================================================== C16
\* The value is empty: null, undefined or the empty string.
IsEmpty(value) == value \in {Null, Undefined, ""}

\* The validation resolves with valid = true and no error.
YieldsValid(run) ==
  /\ ~RunRejected(run)
  /\ FieldResult(run).valid
  /\ FieldResult(run).errors = <<>>

\* The step runs the callback of a validation whose results are handled.
HandledSettle ==
  /\ last'.op = "settle"
  /\ last'.ret \in {"true", "false"}
  /\ ~inflight[last'.idx].silent

\* The field is valid and the ErrorBag holds no entry with its id.
CleanAndValid(flds, errs, id) ==
  /\ EntriesOf(errs, id) = <<>>
  /\ \A n \in 1..Len(flds) : flds[n].id = id => flds[n].flags.valid = "true"

\* The empty-optional skip, for every bails setting outside `exempt`: the
\* validation of a field that is not required with an empty value invokes no
\* rule and yields valid = true with no error, and so does, whatever the
\* value, the validation of a field without rules; once the result is
\* handled the field is valid and has no ErrorBag entry.
EmptyOptional(exempt) ==
  /\ \A i \in 1..Len(inflight') : \A j \in 1..Len(inflight'[i].runs) : \A n \in 1..Len(fields') :
       LET run == inflight'[i].runs[j]
           f == fields'[n]
       IN f.id = run.id =>
            /\ (~f.isRequired /\ f.bails \notin exempt /\ IsEmpty(run.value))
                 => (run.invoked = <<>> /\ YieldsValid(run))
            /\ f.rules = <<>> => YieldsValid(run)
  /\ HandledSettle =>
       \A j \in 1..Len(inflight[last'.idx].runs) : \A n \in 1..Len(fields) :
         LET run == inflight[last'.idx].runs[j]
             f == fields[n]
         IN (/\ f.id = run.id
             /\ \/ ~f.isRequired /\ f.bails \notin exempt /\ IsEmpty(run.value)
                \/ f.rules = <<>>)
              => CleanAndValid(fields', errors', f.id)

\* C16 as stated: a field that is not required, validated with an empty
\* value, yields valid = true with zero errors and none of its rules is
\* invoked; a field with no rules yields valid = true with zero errors for
\* every value.
C16_EmptyOptionalIsSkipped == [][EmptyOptional({})]_vars

\* C16, amended: a field that is not required and whose bails option is not
\* false, validated with an empty value, yields valid = true with zero errors
\* and none of its rules is invoked; a field with no rules yields valid = true
\* with zero errors for every value.
C16_EmptyOptionalIsSkippedUnlessBailsOff == [][EmptyOptional({"false"})]_vars

\* A validate of an enabled, optional field with rules, on an empty value, is
\* in flight and was skipped.
C16_Witness ==
  \E i \in 1..Len(inflight) : \E n \in 1..Len(fields) :
    /\ inflight[i].kind = "single"
    /\ fields[n].id = inflight[i].runs[1].id
    /\ ~fields[n].isRequired /\ ~fields[n].isDisabled
    /\ fields[n].rules # <<>>
    /\ IsEmpty(inflight[i].runs[1].value)
    /\ inflight[i].runs[1].skipped

\* ==================================================================== C18
\* The disabled-field skip, for every bails setting outside `exempt`: the
\* validation of a disabled field invokes no rule and yields valid = true
\* with no error; once the result is handled the field is valid and has no
\* ErrorBag entry.
DisabledSkipped(exempt) ==
  /\ \A i \in 1..Len(inflight') : \A j \in 1..Len(inflight'[i].runs) : \A n \in 1..Len(fields') :
       LET run == inflight'[i].runs[j]
           f == fields'[n]
       IN (f.id = run.id /\ f.isDisabled /\ f.bails \notin exempt)
            => (run.invoked = <<>> /\ YieldsValid(run))
  /\ HandledSettle =>
       \A j \in 1..Len(inflight[last'.idx].runs) : \A n \in 1..Len(fields) :
         LET run == inflight[last'.idx].runs[j]
             f == fields[n]
         IN (f.id = run.id /\ f.isDisabled /\ f.bails \notin exempt)
              => CleanAndValid(fields', errors', f.id)

\* C18 as stated: a disabled field always validates to valid = true with zero
\* errors and without invoking any rule, for every value and every setting of
\* the field's bails option.
C18_DisabledIsSkipped == [][DisabledSkipped({})]_vars

\* C18, amended: a disabled field whose bails option is not false always
\* validates to valid = true with zero errors and without invoking any rule,
\* for every value.
C18_DisabledIsSkippedUnlessBailsOff == [][DisabledSkipped({"false"})]_vars

\* The callback of a validate of a disabled, required field, bails true, ran:
\* the field, whose value one of its rules rejects, is valid and has no entry.
C18_Witness ==
  /\ last.op = "settle"
  /\ last.ret = "true"
  /\ \E n \in 1..Len(fields) :
       /\ fields[n].isDisabled /\ fields[n].isRequired
       /\ fields[n].bails = "true"
       /\ fields[n].flags = [pending |-> FALSE, valid |-> "true", validated |-> TRUE]
       /\ \E k \in 1..Len(fields[n].rules) : RuleFails(fields[n].rules[k], fields[n].value)
       /\ EntriesOf(errors, fields[n].id) = <<>>

\* ==================================================================== C17
\* C17: extend called with a validator that is neither a function nor an
\* object with a validate method throws an extension error and leaves the
\* rule registry unchanged.
C17_BadExtendThrowsExtensionError ==
  [][(last'.op = "extend" /\ last'.args[2] \notin {"function", "withValidate"})
       => (last'.ret = "ExtensionError" /\ RULES' = RULES)]_vars

\* ==================================================================== C19
\* The rule's validate function returns a promise.
IsAsync(rule) == RuleLib[RULES[rule].validate].async

\* C19: in a validation with bail active whose scan found a failing
\* synchronous rule, no asynchronous rule of the field was invoked.
C19_SyncFailurePrecedesAsync ==
  \A i \in 1..Len(inflight) : \A j \in 1..Len(inflight[i].runs) : \A n \in 1..Len(fields) :
    LET run == inflight[i].runs[j]
        f == fields[n]
    IN (f.id = run.id /\ BailActive(f) /\ run.isExitEarly)
         => \A k \in 1..Len(run.invoked) : ~IsAsync(run.invoked[k])

\* ==================================================================== C20
\* The entries added by hand (they carry no id) under a field's name and scope.
ManualEntriesOf(errs, f) ==
  SelectSeq(errs, LAMBDA e : e.id = 0 /\ e.field = f.name /\ e.scope = f.scope)

\* C20: after the result handling of a non-silent validation of a live field,
\* the ErrorBag entries with the field's id are exactly the errors of the
\* result, no entry added by hand under the field's name and scope is left,
\* and the field's flags are pending = false, validated = true and valid =
\* the validity of the result.
C20_HandlingReplacesTheFieldsErrors ==
  [][HandledSettle =>
       \A j \in 1..Len(inflight[last'.idx].runs) : \A n \in 1..Len(fields) :
         LET run == inflight[last'.idx].runs[j]
             f == fields[n]
         IN f.id = run.id =>
              /\ EntriesOf(errors', f.id) = FieldResult(run).errors
              /\ ManualEntriesOf(errors', f) = <<>>
              /\ fields'[n].flags =
                   [pending |-> FALSE, validated |-> TRUE,
                    valid |-> BoolStr(FieldResult(run).valid)]]_vars

\* ==================================================================== C21
\* The places of the errors matching the primary predicate of first(field,
\* scope), field being `name` or `name:rule`: the selector's scope exactly (no
\* scope: items without scope only), its name exactly, and its rule if given.
PrimaryMatches(items, field, rule, scope) ==
  LET f == _makeCandidateFilters(Selector(field, scope))
  IN {i \in 1..Len(items) :
        /\ items[i].field = f.name
        /\ items[i].scope = (IF f.scope = Undefined THEN Null ELSE f.scope)
        /\ (rule # Undefined => items[i].rule = rule)}

\* The places of the errors matching the alt predicate: the field name is
\* 'scope.name'; `ofRule` adds: and the rule is the selector's, if given.
AltMatches(items, field, rule, scope, ofRule) ==
  LET f == _makeCandidateFilters(Selector(field, scope))
  IN {i \in 1..Len(items) :
        /\ items[i].field = <<f.scope>> \o f.name
        /\ (ofRule /\ rule # Undefined) => items[i].rule = rule}

\* The two-tier policy of first over the bag it is asked of.
FirstPolicy(ofRule) ==
  last'.op = "first" =>
    LET P == PrimaryMatches(errors, last'.args[1], last'.args[2], last'.args[3])
        A == AltMatches(errors, last'.args[1], last'.args[2], last'.args[3], ofRule)
        msg == last'.args[4]
    IN IF P # {} THEN msg = errors[CHOOSE i \in P : \A k \in P : i <= k].msg
       ELSE IF A # {} THEN msg = errors[CHOOSE i \in A : \A k \in A : i >= k].msg
       ELSE msg = Undefined

\* C21 as stated: first returns the message of the earliest-inserted error
\* matching the primary predicate; when none does, that of the last-inserted
\* error whose field name is 'scope.name'; when neither matches, no message.
C21_FirstReturnsPrimaryElseLastAlt == [][FirstPolicy(FALSE)]_vars

\* C21, amended: first returns the message of the earliest-inserted error
\* matching the primary predicate; when none does, that of the last-inserted
\* error matching the alt predicate (field name equal to 'scope.name', rule
\* if given); when neither matches, no message.
C21_FirstReturnsPrimaryElseLastAltOfTheRule == [][FirstPolicy(TRUE)]_vars

\* first was asked of a bag without a primary match and with two alt matches
\* of different messages, and returned the later one's.
C21_Witness ==
  /\ last.op = "first"
  /\ PrimaryMatches(errors, last.args[1], last.args[2], last.args[3]) = {}
  /\ \E i, k \in AltMatches(errors, last.args[1], last.args[2], last.args[3], TRUE) :
       /\ i < k
       /\ errors[i].msg # errors[k].msg
       /\ last.args[4] = errors[k].msg

\* ==================================================================== C22
\* C22: update(id, {scope}) moves the earliest error of that id to the end of
\* the bag with the given scope, leaves count() and the content and relative
\* order of every other error unchanged, and changes nothing when no error
\* has that id.
C22_UpdateMovesTheEarliest ==
  [][last'.op \in {"update", "errors.update"} =>
       LET id == last'.args[1]
           hits == {i \in 1..Len(errors) : errors[i].id = id}
       IN IF hits = {} THEN errors' = errors
          ELSE LET idx == CHOOSE i \in hits : \A k \in hits : i <= k
               IN /\ count(errors') = count(errors)
                  /\ errors'[Len(errors')] = [errors[idx] EXCEPT !.scope = last'.args[2]]
                  /\ SubSeq(errors', 1, Len(errors') - 1) = RemoveAt(errors, idx)]_vars

\* An update moved an error to a scope that is not its field's, behind
\* another error of the same id and one of another id.
C22_Witness ==
  /\ last.op \in {"update", "errors.update"}
  /\ errors # <<>>
  /\ errors[Len(errors)].id = last.args[1]
  /\ errors[Len(errors)].scope = last.args[2]
  /\ \E n \in 1..Len(fields) :
       fields[n].id = last.args[1] /\ fields[n].scope # last.args[2]
  /\ \E i, k \in 1..(Len(errors) - 1) :
       /\ errors[i].id = last.args[1]
       /\ errors[i].rule # errors[Len(errors)].rule
       /\ errors[k].id # last.args[1]

\* ==================================================================== C23
\* A field is pending.
SomePending == \E n \in 1..Len(fields) : fields[n].flags.pending

\* C23: a pending flag that a non-silent validate set is false again once the
\* rule outcomes of the validation have settled, a rejection included (the
\* form has one field, and nothing but validate sets the flag).
C23_PendingIsCleared == SomePending ~> ~SomePending

\* ==================================================================== C24
\* C24: in every state the flags view holds the flags of every field of the
\* FieldBag: those of a field without scope under its name, those of a field
\* with a scope under '$<scope>' and its name.
C24_FlagsViewHoldsEveryField ==
  \A n \in 1..Len(fields) :
    LET f == fields[n]
        view == flags(fields)
    IN IF f.scope = Null
         THEN f.name \in DOMAIN view /\ view[f.name] = f.flags
         ELSE /\ ScopeKey(f.scope) \in DOMAIN view
              /\ f.name \in DOMAIN view[ScopeKey(f.scope)]
              /\ view[ScopeKey(f.scope)][f.name] = f.flags

\* ===================================================================== C9
\* C9: every ErrorBag entry produced by a validation carries the id of a
\* field that is in the FieldBag. (Every entry of this model is produced by
\* a validation.)
C9_ErrorsBelongToLiveFields ==
  \A e \in 1..Len(errors) : \E i \in 1..Len(fields) : fields[i].id = errors[e].id

\* ==================================================================== C10
\* C10: right after detach of a field, whatever its name and scope, the field
\* is out of the FieldBag and no ErrorBag entry carries its id.
C10_DetachPurgesTheField ==
  [][last'.op = "detach"
       => \E i \in 1..Len(fields) :
            /\ fields' = RemoveAt(fields, i)
            /\ \A e \in 1..Len(errors') : errors'[e].id # fields[i].id]_vars

====
